---------------------------- MODULE Spec2Model ----------------------------
(***************************************************************************)
(* A model of the JSONL viewer / editor (jsonl_ui.py, jvu.py, viewer.py).  *)
(*                                                                         *)
(* Text is a sequence of characters.  A file is one text; a line-oriented  *)
(* reader splits it at "\n" exactly as Python's text-mode iteration does.  *)
(* JSON is modelled by a small dialect that is parsed and printed          *)
(* character by character:                                                 *)
(*    number   one or more digits "1"            1, 11, 111                *)
(*    object   { digits " body " }               the placeholder object    *)
(*             {"__error__": "Line <n>: ...", "__raw__": "<body>"}          *)
(*             whose punctuation and key names are abbreviated             *)
(* with JSON whitespace (space, newline) allowed around a document and     *)
(* inside the braces, and with JSON string escapes in the body.            *)
(***************************************************************************)
EXTENDS Integers, Sequences, FiniteSets, TLC

VARIABLES
    \* ---- record readers (read_jsonl, _safe_jsonl, load_jsonl, schema_info)
    rText,      \* content of the file handed to the reader
    rLimit,     \* the reader's line-count limit
    rOp,        \* which reader has run ("none" before)
    rOut,       \* what it returned
    \* ---- record store (write_jsonl and the mutation handlers)
    dir,        \* name -> inode number (0: the name does not exist)
    ino,        \* inode number -> content
    procs,      \* the request threads that may run
    pc,         \* each request thread's position
    req,        \* each thread's request: kind, idx, payload
    rows,       \* each thread's in-memory record list
    newrows,    \* the list each thread handed to write_jsonl
    wk,         \* number of rows written so far by each thread
    hnd,        \* inode behind each thread's open .tmp handle
    off,        \* file offset of that handle
    buf,        \* data written to the handle but not yet flushed
    before,     \* main file content when the thread's write_jsonl began
    renames,    \* the threads whose rename succeeded, in order
    started,    \* number of requests started so far
    \* ---- tree walker (iter_files)
    wSkip,      \* SKIP_DIRS
    wRoots,     \* roots argument
    wExts,      \* exts argument
    wMax,       \* max_files argument
    wPc,        \* position of the walk
    wRootIx,    \* index of the root being walked
    wStack,     \* directories os.walk still has to yield, first on top
    wFound,     \* found
    wWalked,    \* directories os.walk has listed
    \* ---- the other discovery operations (list_files, list_jsonl_files)
    lOp,        \* which one has run ("none" before)
    lOut,       \* the paths it returned
    \* ---- a reader called on a path that may be unreadable
    oState,     \* "readable", "missing" or "denied"
    oText,      \* content of the file (none when missing)
    oLimit,     \* the reader's line-count limit
    oOp,        \* which reader has been called ("none" before)
    oOut,       \* how the call ended
    \* ---- permissions of the tree
    denied,     \* the directories whose listing raises PermissionError
    \* ---- the probe (_dir_has_match)
    pRoot,      \* root argument of the outermost call
    pExts,      \* exts argument (normalised)
    pDepth,     \* max_depth argument of the outermost call
    pBudget,    \* budget argument of the outermost call
    pStack,     \* the calls under way, innermost first
    pResult,    \* what the outermost call returned ("none" before)
    pSeen,      \* the entries examined so far, in order
    \* ---- the one-level listing (iter_tree)
    hideEmptyDirs,  \* HIDE_EMPTY_DIRS
    dirProbeDepth,  \* DIR_PROBE_DEPTH
    dirProbeLimit,  \* DIR_PROBE_LIMIT
    tPc,        \* position of iter_tree
    tPath,      \* path argument
    tExts,      \* exts argument
    tEntries,   \* the sorted entries still to go through
    tOut,       \* out
    \* ---- schema recognition (infer_schema_name)
    sKeys,      \* schema_keys argument
    sName,      \* the name returned ("none" before)
    \* ---- the file page (view_file)
    vText,      \* content of the file viewed
    vPage,      \* page argument
    vSize,      \* size argument
    vQ,         \* q argument (regex = False)
    vPc,        \* "call", "rendered" or "raised"
    vTotal,     \* total handed to the template
    vOut        \* previews handed to the template

readerVars == <<rText, rLimit, rOp, rOut>>
storeVars  == <<dir, ino, procs, pc, req, rows, newrows, wk, hnd, off, buf,
                before, renames, started>>
walkVars   == <<wSkip, wRoots, wExts, wMax, wPc, wRootIx, wStack, wFound,
                wWalked>>
listVars   == <<lOp, lOut>>
openVars   == <<oState, oText, oLimit, oOp, oOut>>
permVars   == <<denied>>
probeVars  == <<pRoot, pExts, pDepth, pBudget, pStack, pResult, pSeen>>
treeVars   == <<hideEmptyDirs, dirProbeDepth, dirProbeLimit, tPc, tPath, tExts,
                tEntries, tOut>>
schemaVars == <<sKeys, sName>>
viewVars   == <<vText, vPage, vSize, vQ, vPc, vTotal, vOut>>
lateVars   == <<schemaVars, viewVars>>
auxVars    == <<listVars, openVars, permVars, probeVars, treeVars, lateVars>>
notList    == <<readerVars, storeVars, walkVars, openVars, permVars, probeVars,
                treeVars, lateVars>>
notOpen    == <<readerVars, storeVars, walkVars, listVars, permVars, probeVars,
                treeVars, lateVars>>
notSchema  == <<readerVars, storeVars, walkVars, listVars, openVars, permVars,
                probeVars, treeVars, viewVars>>
notView    == <<readerVars, storeVars, walkVars, listVars, openVars, permVars,
                probeVars, treeVars, schemaVars>>
vars == <<readerVars, storeVars, walkVars, auxVars>>

-----------------------------------------------------------------------------
(* Characters *)

LF  == "\n"
SP  == " "
FF  == "\f"     \* form feed: whitespace for str.strip(), not for JSON
NUL == "NUL"    \* the zero byte a write past the end of a file leaves
QT  == "\""
BSL == "\\"

PyWS   == {SP, LF, FF}
JsonWS == {SP, LF}

(* Characters a JSON string must escape, and the letter of each escape. *)
EscLetter(c) ==
    CASE c = LF  -> "n"
      [] c = FF  -> "f"
      [] c = NUL -> "0"
      [] c = QT  -> QT
      [] c = BSL -> BSL
      [] OTHER   -> ""

MustEscape == {LF, FF, NUL, QT, BSL}

UnescLetter(l) ==
    CASE l = "n" -> LF
      [] l = "f" -> FF
      [] l = "0" -> NUL
      [] l = QT  -> QT
      [] l = BSL -> BSL
      [] OTHER   -> ""

-----------------------------------------------------------------------------
(* Text helpers *)

RECURSIVE LStrip(_, _)
LStrip(s, ws) ==
    IF s # <<>> /\ Head(s) \in ws THEN LStrip(Tail(s), ws) ELSE s

RECURSIVE RStrip(_, _)
RStrip(s, ws) ==
    IF s # <<>> /\ s[Len(s)] \in ws
    THEN RStrip(SubSeq(s, 1, Len(s) - 1), ws)
    ELSE s

(* str.strip(): leading and trailing whitespace removed. *)
Strip(s, ws) == RStrip(LStrip(s, ws), ws)

(* Iterating a text-mode file: lines end at "\n" and keep it; a last line *)
(* without "\n" is a line too.                                             *)
RECURSIVE SplitFrom(_, _, _)
SplitFrom(t, i, cur) ==
    IF i > Len(t)
    THEN IF cur = <<>> THEN <<>> ELSE <<cur>>
    ELSE IF t[i] = LF
         THEN <<Append(cur, LF)>> \o SplitFrom(t, i + 1, <<>>)
         ELSE SplitFrom(t, i + 1, Append(cur, t[i]))

FileLines(t) == SplitFrom(t, 1, <<>>)

RECURSIVE Ones(_)
Ones(n) == IF n <= 0 THEN <<>> ELSE <<"1">> \o Ones(n - 1)

AllOnes(s) == s # <<>> /\ \A i \in 1..Len(s) : s[i] = "1"

-----------------------------------------------------------------------------
(* JSON values.  Every value is a record of the same shape:                *)
(*   tag "num"       the number written with n digits                      *)
(*   tag "__raw__"   {"__error__": "Line n: ...", "__raw__": raw}          *)
(*   tag "_raw"      {"_raw": raw}         (jvu.py)                        *)
(*   tag "raw"       {"raw": raw}          (viewer.py)                     *)
(*   tag "error"     {"error": ...}        (jvu.py, unreadable file)       *)

Num(n)          == [tag |-> "num",     n |-> n, raw |-> <<>>]
ErrObj(n, raw)  == [tag |-> "__raw__", n |-> n, raw |-> raw]
RawObj(tag, raw) == [tag |-> tag,      n |-> 0, raw |-> raw]

(* JSON string escaping of a body, and its inverse. *)
RECURSIVE EscapeStr(_)
EscapeStr(s) ==
    IF s = <<>> THEN <<>>
    ELSE (IF Head(s) \in MustEscape
          THEN <<BSL, EscLetter(Head(s))>>
          ELSE <<Head(s)>>) \o EscapeStr(Tail(s))

(* A string body is well formed when it holds no bare quote or control     *)
(* character and every backslash starts a known escape.                    *)
RECURSIVE BodyOk(_)
BodyOk(b) ==
    IF b = <<>> THEN TRUE
    ELSE IF Head(b) = BSL
         THEN Len(b) >= 2 /\ UnescLetter(b[2]) # "" /\ BodyOk(Tail(Tail(b)))
         ELSE Head(b) \notin MustEscape /\ BodyOk(Tail(b))

RECURSIVE UnescapeStr(_)
UnescapeStr(b) ==
    IF b = <<>> THEN <<>>
    ELSE IF Head(b) = BSL
         THEN <<UnescLetter(b[2])>> \o UnescapeStr(Tail(Tail(b)))
         ELSE <<Head(b)>> \o UnescapeStr(Tail(b))

(* Number of leading digits of s. *)
RECURSIVE LeadOnes(_)
LeadOnes(s) ==
    IF s # <<>> /\ Head(s) = "1" THEN 1 + LeadOnes(Tail(s)) ELSE 0

(* The inside of { ... }: digits, then a quoted body. *)
ObjInnerOk(t) ==
    LET d == LeadOnes(t) IN
    /\ d >= 1
    /\ Len(t) >= d + 2
    /\ t[d + 1] = QT
    /\ t[Len(t)] = QT
    /\ BodyOk(SubSeq(t, d + 2, Len(t) - 1))

ObjInnerVal(t) ==
    LET d == LeadOnes(t) IN
    ErrObj(d, UnescapeStr(SubSeq(t, d + 2, Len(t) - 1)))

NoValue == [tag |-> "none", n |-> 0, raw |-> <<>>]

(* json.loads(s): [ok |-> whether s is one JSON document, val |-> it]. *)
JsonLoads(s) ==
    LET t == Strip(s, JsonWS) IN
    IF AllOnes(t) THEN [ok |-> TRUE, val |-> Num(Len(t))]
    ELSE IF Len(t) >= 2 /\ t[1] = "{" /\ t[Len(t)] = "}"
              /\ ObjInnerOk(Strip(SubSeq(t, 2, Len(t) - 1), JsonWS))
         THEN [ok |-> TRUE,
               val |-> ObjInnerVal(Strip(SubSeq(t, 2, Len(t) - 1), JsonWS))]
         ELSE [ok |-> FALSE, val |-> NoValue]

(* json.dumps with a placeholder written back as the text it holds. *)
JsonDumpsRawBack(v) ==
    IF v.tag = "num" THEN Ones(v.n)
    ELSE IF v.tag = "__raw__" THEN v.raw
    ELSE <<"{">> \o Ones(v.n) \o <<QT>> \o EscapeStr(v.raw) \o <<QT, "}">>

(* json.dumps with the string body written as it is, unescaped. *)
JsonDumpsUnescaped(v) ==
    IF v.tag = "num" THEN Ones(v.n)
    ELSE <<"{">> \o Ones(v.n) \o <<QT>> \o v.raw \o <<QT, "}">>

(* json.dumps(v, ensure_ascii=False): one line, no newline in it. *)
JsonDumps(v) ==
    IF v.tag = "num" THEN Ones(v.n)
    ELSE <<"{">> \o Ones(v.n) \o <<QT>> \o EscapeStr(v.raw) \o <<QT, "}">>

-----------------------------------------------------------------------------
(* Record readers *)

(* The loop body with a line that fails to parse dropped instead of kept.  *)
ReadJsonlLineDropsBad(i, line) ==
    LET s == Strip(line, PyWS)
        r == JsonLoads(s)
    IN  IF s = <<>> \/ ~r.ok THEN <<>> ELSE <<r.val>>

(* The loop body with the placeholder built from the line as read. *)
SafeJsonlLineKeepsPadding(line) ==
    LET s == Strip(line, PyWS)
        r == JsonLoads(s)
    IN  IF s = <<>> THEN <<>>
        ELSE <<IF r.ok THEN r.val ELSE RawObj("_raw", line)>>

(* jsonl_ui.read_jsonl, the loop body for line number i (1-based): a blank *)
(* line gives nothing, a line that parses gives its value, any other line  *)
(* gives the placeholder with the line number and the stripped line.       *)
ReadJsonlLine(i, line) ==
    LET s == Strip(line, PyWS)
        r == JsonLoads(s)
    IN  IF s = <<>> THEN <<>>
        ELSE <<IF r.ok THEN r.val ELSE ErrObj(i, s)>>

RECURSIVE ReadJsonlFrom(_, _)
ReadJsonlFrom(lines, i) ==
    IF i > Len(lines) THEN <<>>
    ELSE ReadJsonlLine(i, lines[i]) \o ReadJsonlFrom(lines, i + 1)

read_jsonl(exists, text) ==
    IF ~exists THEN <<>> ELSE ReadJsonlFrom(FileLines(text), 1)

(* jvu._safe_jsonl, the loop body: the placeholder is {"_raw": line}. *)
SafeJsonlLine(line) ==
    LET s == Strip(line, PyWS)
        r == JsonLoads(s)
    IN  IF s = <<>> THEN <<>>
        ELSE <<IF r.ok THEN r.val ELSE RawObj("_raw", s)>>

(* "if i >= limit: break" sits after the append and is skipped, with the   *)
(* rest of the body, by the "continue" of a blank line; i is 1-based.      *)
SafeJsonlStops(i, line, limit) ==
    Strip(line, PyWS) # <<>> /\ i >= limit

RECURSIVE SafeJsonlFrom(_, _, _)
SafeJsonlFrom(lines, i, limit) ==
    IF i > Len(lines) THEN <<>>
    ELSE SafeJsonlLine(lines[i])
         \o (IF SafeJsonlStops(i, lines[i], limit) THEN <<>>
             ELSE SafeJsonlFrom(lines, i + 1, limit))

safe_jsonl(text, limit) == SafeJsonlFrom(FileLines(text), 1, limit)

(* viewer.load_jsonl, the loop body: the line is parsed unstripped, the    *)
(* placeholder is {"raw": line.strip()}.                                   *)
LoadJsonlLine(line) ==
    LET r == JsonLoads(line)
    IN  IF Strip(line, PyWS) = <<>> THEN <<>>
        ELSE <<IF r.ok THEN r.val ELSE RawObj("raw", Strip(line, PyWS))>>

(* "if i >= limit: break" is tested on every line, blank or not, with the  *)
(* 0-based i of enumerate(f); k is the 1-based line number.                *)
LoadJsonlStops(k, limit) == k - 1 >= limit

RECURSIVE LoadJsonlFrom(_, _, _)
LoadJsonlFrom(lines, k, limit) ==
    IF k > Len(lines) THEN <<>>
    ELSE LoadJsonlLine(lines[k])
         \o (IF LoadJsonlStops(k, limit) THEN <<>>
             ELSE LoadJsonlFrom(lines, k + 1, limit))

load_jsonl(text, limit) == LoadJsonlFrom(FileLines(text), 1, limit)

(* viewer.schema_info, the scan: [status, recs].  The first line that does *)
(* not parse makes it rewind and parse the whole file as one document,     *)
(* which replaces what was collected, or answer 400; the loop ends there.  *)
(* The dialect has no arrays, so a whole document is one record.           *)
SchemaFallback(text) ==
    LET doc == JsonLoads(text)
    IN  IF doc.ok THEN [status |-> "ok", recs |-> <<doc.val>>]
        ELSE [status |-> "error400", recs |-> <<>>]

RECURSIVE SchemaScanFrom(_, _, _, _)
SchemaScanFrom(text, lines, i, acc) ==
    IF i > Len(lines) THEN [status |-> "ok", recs |-> acc]
    ELSE LET line == Strip(lines[i], PyWS)
             r    == JsonLoads(line)
         IN  IF line = <<>> THEN SchemaScanFrom(text, lines, i + 1, acc)
             ELSE IF r.ok
                  THEN SchemaScanFrom(text, lines, i + 1, Append(acc, r.val))
                  ELSE SchemaFallback(text)

(* "if not total" answers "Empty file". *)
schema_scan(text) ==
    LET s == SchemaScanFrom(text, FileLines(text), 1, <<>>) IN
    IF s.status = "ok" /\ s.recs = <<>>
    THEN [status |-> "empty", recs |-> <<>>]
    ELSE s

-----------------------------------------------------------------------------
(* The record store: files, and write_jsonl step by step *)

Procs  == {1, 2}
Inodes == {1, 2, 3, 4}
Names  == {"main", "bak", "tmp"}

NoFile == [exists |-> FALSE, text |-> <<>>]

(* What a name holds in a directory d with inode table i. *)
FileAt(d, i, name) ==
    IF d[name] = 0 THEN NoFile ELSE [exists |-> TRUE, text |-> i[d[name]]]

FileState(name) == FileAt(dir, ino, name)

(* The text write_jsonl's loop writes for a record list: one document per  *)
(* line, each followed by "\n".                                            *)
RECURSIVE Serialize(_)
Serialize(rs) ==
    IF rs = <<>> THEN <<>>
    ELSE JsonDumps(Head(rs)) \o <<LF>> \o Serialize(Tail(rs))

(* write(2) of data at an offset: bytes past the end leave a hole of       *)
(* zero bytes, bytes inside the file are overwritten.                      *)
WriteAt(text, offset, data) ==
    LET padded == IF Len(text) < offset
                  THEN text \o [k \in 1..(offset - Len(text)) |-> NUL]
                  ELSE text
    IN  SubSeq(padded, 1, offset) \o data
        \o SubSeq(padded, offset + Len(data) + 1, Len(padded))

(* An inode lives while a name or an open handle refers to it. *)
Referenced(d, h) == {d[n] : n \in Names} \cup {h[p] : p \in Procs}

Collect(d, h, i) ==
    [j \in Inodes |-> IF j \in Referenced(d, h) THEN i[j] ELSE <<>>]

FreeInode(d, h) ==
    CHOOSE j \in Inodes :
        /\ j \notin Referenced(d, h)
        /\ \A k \in Inodes : k \notin Referenced(d, h) => j <= k

(* Writing in place: the "sibling" is the file itself. *)
TmpNameInPlace == "main"

(* The sibling write_jsonl writes to before the rename. *)
TmpName == "tmp"

(* The sibling write_jsonl copies the previous file to. *)
BakName == "bak"

(* The index test with > for >=. *)
IndexInRangeOffByOne(idx, n) == ~(idx < 0 \/ idx > n)

(* idx < 0 or idx >= len(rows) is "Index out of range". *)
IndexInRange(idx, n) == ~(idx < 0 \/ idx >= n)

RemoveAt(rs, k) == SubSeq(rs, 1, k - 1) \o SubSeq(rs, k + 1, Len(rs))

(* The response of api_add_record, computed from the list after append. *)
AddResponseIdx(rs) == Len(rs) - 1

(* The change of the list with a delete that cuts the list at idx. *)
MutatedDeleteCuts(kind, rs, idx, obj) ==
    CASE kind = "update" -> [rs EXCEPT ![idx + 1] = obj]
      [] kind = "add"    -> Append(rs, obj)
      [] kind = "delete" -> SubSeq(rs, 1, idx)

(* The list a handler passes to write_jsonl (the request being valid). *)
Mutated(kind, rs, idx, obj) ==
    CASE kind = "update" -> [rs EXCEPT ![idx + 1] = obj]
      [] kind = "add"    -> Append(rs, obj)
      [] kind = "delete" -> RemoveAt(rs, idx + 1)

(* Where a handler goes after reading the file: 404, 400, or on to save.   *)
(* update tests the index before the payload; add has no index; delete     *)
(* has no payload.                                                         *)
Verdict(kind, rs, idx, payload) ==
    IF kind \in {"update", "delete"} /\ ~IndexInRange(idx, Len(rs))
    THEN "rejected404"
    ELSE IF kind \in {"update", "add"} /\ ~JsonLoads(payload).ok
         THEN "rejected400"
         ELSE "w_backup"

SavingPcs  == {"w_backup", "w_open", "w_write", "w_rename"}
FinalPcs   == {"done", "rejected404", "rejected400", "failed", "crashed"}

NoReq == [kind |-> "none", idx |-> 0, payload |-> <<>>]
NoBefore == [main |-> NoFile, bak |-> NoFile]

(* shutil.copy2(src, dst): dst is created or overwritten with src's        *)
(* content.  [dir, ino] after the copy.                                    *)
CopyFile(d, i, h, src, dst) ==
    IF d[dst] = 0
    THEN LET j == FreeInode(d, h) IN
         [dir |-> [d EXCEPT ![dst] = j], ino |-> [i EXCEPT ![j] = i[d[src]]]]
    ELSE [dir |-> d, ino |-> [i EXCEPT ![d[dst]] = i[d[src]]]]

(* write_jsonl without its backup. *)
BackupStepSkipped(d, i, h) == [dir |-> d, ino |-> i]

(* write_jsonl, first statement: if path.exists(): copy2(path, path.bak) *)
BackupStep(d, i, h) ==
    IF d["main"] # 0 THEN CopyFile(d, i, h, "main", BakName)
    ELSE [dir |-> d, ino |-> i]

(* open(name, "w"): the file is created empty, or the existing inode is    *)
(* truncated.  [dir, ino] after the open.                                  *)
OpenTrunc(d, i, h, name) ==
    IF d[name] = 0
    THEN LET j == FreeInode(d, h) IN
         [dir |-> [d EXCEPT ![name] = j], ino |-> [i EXCEPT ![j] = <<>>]]
    ELSE [dir |-> d, ino |-> [i EXCEPT ![d[name]] = <<>>]]

(* tmp.replace(path): the directory after the rename. *)
Replaced(d, src, dst) ==
    [n \in Names |-> IF n = dst THEN d[src] ELSE IF n = src THEN 0 ELSE d[n]]

-----------------------------------------------------------------------------
(* Inputs of the store *)

MaxReqs == 2

Kinds == {"update", "add", "delete"}

IdxInputs == {-1, 0, 1, 2}

Payloads == { <<"1", "1">>, <<SP, "1", LF>>, <<"x">>, <<>> }

StoreTexts ==
    { <<>>,
      <<"1", LF>>,
      <<"1", LF, SP, LF, SP, "x", SP, LF, "1", "1">>,
      <<"x", FF, QT, LF, "1", LF>> }

BakTexts == { <<"x", LF>> }

TmpTexts == { <<"1", LF, "1", LF, "1", LF, "1", LF, "1", LF>> }

FileChoices(texts) ==
    {NoFile} \cup {[exists |-> TRUE, text |-> t] : t \in texts}

(* The directory and inode table holding the three given files. *)
DirOf(m, b, t) ==
    [n \in Names |->
        CASE n = "main" -> IF m.exists THEN 1 ELSE 0
          [] n = "bak"  -> IF b.exists THEN 2 ELSE 0
          [] n = "tmp"  -> IF t.exists THEN 3 ELSE 0]

InoOf(m, b, t) ==
    [j \in Inodes |->
        CASE j = 1 -> m.text
          [] j = 2 -> b.text
          [] j = 3 -> t.text
          [] OTHER -> <<>>]

-----------------------------------------------------------------------------
(* Actions of the store *)

(* A handler up to its call of write_jsonl: read_jsonl(path), the index    *)
(* test, json.loads(payload), the change of the list.                      *)
Begin(p) ==
    /\ p \in procs
    /\ pc[p] = "idle"
    /\ started < MaxReqs
    /\ \E kind \in Kinds :
       \E idx \in (IF kind = "add" THEN {0} ELSE IdxInputs) :
       \E payload \in (IF kind = "delete" THEN {<<>>} ELSE Payloads) :
          LET m  == FileState("main")
              rs == read_jsonl(m.exists, m.text)
              v  == Verdict(kind, rs, idx, payload)
          IN  /\ req' = [req EXCEPT ![p] =
                           [kind |-> kind, idx |-> idx, payload |-> payload]]
              /\ rows' = [rows EXCEPT ![p] = rs]
              /\ newrows' = [newrows EXCEPT ![p] =
                               IF v = "w_backup"
                               THEN Mutated(kind, rs, idx,
                                            JsonLoads(payload).val)
                               ELSE <<>>]
              /\ pc' = [pc EXCEPT ![p] = v]
              /\ before' = [before EXCEPT ![p] =
                              [main |-> m, bak |-> FileState(BakName)]]
    /\ started' = started + 1
    /\ UNCHANGED <<dir, ino, procs, wk, hnd, off, buf, renames>>
    /\ UNCHANGED <<readerVars, walkVars, auxVars>>

(* write_jsonl: the backup. *)
Backup(p) ==
    /\ pc[p] = "w_backup"
    /\ LET r == BackupStep(dir, ino, hnd) IN
       /\ dir' = r.dir
       /\ ino' = r.ino
    /\ before' = [before EXCEPT ![p] =
                    [main |-> FileState("main"), bak |-> FileState(BakName)]]
    /\ pc' = [pc EXCEPT ![p] = "w_open"]
    /\ UNCHANGED <<procs, req, rows, newrows, wk, hnd, off, buf, renames,
                   started>>
    /\ UNCHANGED <<readerVars, walkVars, auxVars>>

(* write_jsonl: tmp.open("w"). *)
OpenTmp(p) ==
    /\ pc[p] = "w_open"
    /\ LET r == OpenTrunc(dir, ino, hnd, TmpName) IN
       /\ dir' = r.dir
       /\ ino' = r.ino
       /\ hnd' = [hnd EXCEPT ![p] = r.dir[TmpName]]
    /\ off' = [off EXCEPT ![p] = 0]
    /\ buf' = [buf EXCEPT ![p] = <<>>]
    /\ wk' = [wk EXCEPT ![p] = 0]
    /\ pc' = [pc EXCEPT ![p] = "w_write"]
    /\ UNCHANGED <<procs, req, rows, newrows, before, renames, started>>
    /\ UNCHANGED <<readerVars, walkVars, auxVars>>

(* write_jsonl: f.write(json.dumps(r) + "\n") goes to the handle's buffer. *)
WriteRow(p) ==
    /\ pc[p] = "w_write"
    /\ wk[p] < Len(newrows[p])
    /\ buf' = [buf EXCEPT ![p] =
                 @ \o JsonDumps(newrows[p][wk[p] + 1]) \o <<LF>>]
    /\ wk' = [wk EXCEPT ![p] = @ + 1]
    /\ UNCHANGED <<dir, ino, procs, pc, req, rows, newrows, hnd, off, before,
                   renames, started>>
    /\ UNCHANGED <<readerVars, walkVars, auxVars>>

(* The buffer is written out when it fills, which may be after any write. *)
Flush(p) ==
    /\ pc[p] = "w_write"
    /\ buf[p] # <<>>
    /\ ino' = [ino EXCEPT ![hnd[p]] = WriteAt(@, off[p], buf[p])]
    /\ off' = [off EXCEPT ![p] = @ + Len(buf[p])]
    /\ buf' = [buf EXCEPT ![p] = <<>>]
    /\ UNCHANGED <<dir, procs, pc, req, rows, newrows, wk, hnd, before,
                   renames, started>>
    /\ UNCHANGED <<readerVars, walkVars, auxVars>>

(* write_jsonl: leaving the with block flushes and closes the handle. *)
Close(p) ==
    /\ pc[p] = "w_write"
    /\ wk[p] = Len(newrows[p])
    /\ LET h == [hnd EXCEPT ![p] = 0]
           i == [ino EXCEPT ![hnd[p]] = WriteAt(@, off[p], buf[p])]
       IN  /\ hnd' = h
           /\ ino' = Collect(dir, h, i)
    /\ off' = [off EXCEPT ![p] = 0]
    /\ buf' = [buf EXCEPT ![p] = <<>>]
    /\ pc' = [pc EXCEPT ![p] = "w_rename"]
    /\ UNCHANGED <<dir, procs, req, rows, newrows, wk, before, renames,
                   started>>
    /\ UNCHANGED <<readerVars, walkVars, auxVars>>

(* write_jsonl: tmp.replace(path); FileNotFoundError when the sibling has  *)
(* been renamed away by another thread.                                    *)
Rename(p) ==
    /\ pc[p] = "w_rename"
    /\ IF dir[TmpName] = 0
       THEN /\ pc' = [pc EXCEPT ![p] = "failed"]
            /\ UNCHANGED <<dir, ino, renames>>
       ELSE /\ dir' = Replaced(dir, TmpName, "main")
            /\ ino' = Collect(Replaced(dir, TmpName, "main"), hnd, ino)
            /\ renames' = Append(renames, p)
            /\ pc' = [pc EXCEPT ![p] = "done"]
    /\ UNCHANGED <<procs, req, rows, newrows, wk, hnd, off, buf, before,
                   started>>
    /\ UNCHANGED <<readerVars, walkVars, auxVars>>

(* The server process dies while a save is under way: every thread stops   *)
(* where it is, open handles are dropped with their unflushed buffers.     *)
Crash ==
    /\ \E p \in Procs : pc[p] \in SavingPcs
    /\ pc' = [p \in Procs |-> IF pc[p] \in SavingPcs THEN "crashed" ELSE pc[p]]
    /\ hnd' = [p \in Procs |-> 0]
    /\ off' = [p \in Procs |-> 0]
    /\ buf' = [p \in Procs |-> <<>>]
    /\ ino' = Collect(dir, [p \in Procs |-> 0], ino)
    /\ UNCHANGED <<dir, procs, req, rows, newrows, wk, before, renames,
                   started>>
    /\ UNCHANGED <<readerVars, walkVars, auxVars>>

(* The response is sent (or the server is restarted); the thread is free   *)
(* for the next request.                                                   *)
Return(p) ==
    /\ pc[p] \in FinalPcs
    /\ pc' = [pc EXCEPT ![p] = "idle"]
    /\ req' = [req EXCEPT ![p] = NoReq]
    /\ rows' = [rows EXCEPT ![p] = <<>>]
    /\ newrows' = [newrows EXCEPT ![p] = <<>>]
    /\ wk' = [wk EXCEPT ![p] = 0]
    /\ before' = [before EXCEPT ![p] = NoBefore]
    /\ renames' = SelectSeq(renames, LAMBDA q : q # p)
    /\ UNCHANGED <<dir, ino, procs, hnd, off, buf, started>>
    /\ UNCHANGED <<readerVars, walkVars, auxVars>>

StoreNext ==
    \/ \E p \in Procs : Begin(p)
    \/ \E p \in Procs : Backup(p)
    \/ \E p \in Procs : OpenTmp(p)
    \/ \E p \in Procs : WriteRow(p)
    \/ \E p \in Procs : Flush(p)
    \/ \E p \in Procs : Close(p)
    \/ \E p \in Procs : Rename(p)
    \/ \E p \in Procs : Return(p)
    \/ Crash

StoreInit(P) ==
    /\ procs = P
    /\ \E m \in FileChoices(StoreTexts) :
       \E b \in FileChoices(BakTexts) :
       \E t \in FileChoices(TmpTexts) :
          /\ dir = DirOf(m, b, t)
          /\ ino = InoOf(m, b, t)
    /\ pc = [p \in Procs |-> "idle"]
    /\ req = [p \in Procs |-> NoReq]
    /\ rows = [p \in Procs |-> <<>>]
    /\ newrows = [p \in Procs |-> <<>>]
    /\ wk = [p \in Procs |-> 0]
    /\ hnd = [p \in Procs |-> 0]
    /\ off = [p \in Procs |-> 0]
    /\ buf = [p \in Procs |-> <<>>]
    /\ before = [p \in Procs |-> NoBefore]
    /\ renames = <<>>
    /\ started = 0

StoreIdle ==
    /\ procs = {}
    /\ dir = [n \in Names |-> 0]
    /\ ino = [j \in Inodes |-> <<>>]
    /\ pc = [p \in Procs |-> "idle"]
    /\ req = [p \in Procs |-> NoReq]
    /\ rows = [p \in Procs |-> <<>>]
    /\ newrows = [p \in Procs |-> <<>>]
    /\ wk = [p \in Procs |-> 0]
    /\ hnd = [p \in Procs |-> 0]
    /\ off = [p \in Procs |-> 0]
    /\ buf = [p \in Procs |-> <<>>]
    /\ before = [p \in Procs |-> NoBefore]
    /\ renames = <<>>
    /\ started = 0

ReaderIdle ==
    /\ rText = <<>>
    /\ rLimit = 0
    /\ rOp = "none"
    /\ rOut = [status |-> "none", recs |-> <<>>]

WalkIdle ==
    /\ wSkip = {}
    /\ wRoots = <<>>
    /\ wExts = <<>>
    /\ wMax = 0
    /\ wPc = "idle"
    /\ wRootIx = 0
    /\ wStack = <<>>
    /\ wFound = <<>>
    /\ wWalked = {}

ListIdle ==
    /\ lOp = "none"
    /\ lOut = <<>>

NoCall == [status |-> "none", value |-> "none", recs |-> <<>>]

OpenIdle ==
    /\ oState = "readable"
    /\ oText = <<>>
    /\ oLimit = 0
    /\ oOp = "none"
    /\ oOut = NoCall

PermIdle == denied = {}

ProbeIdle ==
    /\ pRoot = <<>>
    /\ pExts = <<>>
    /\ pDepth = 0
    /\ pBudget = 0
    /\ pStack = <<>>
    /\ pResult = "none"
    /\ pSeen = <<>>

TreeIdle ==
    /\ hideEmptyDirs = FALSE
    /\ dirProbeDepth = 0
    /\ dirProbeLimit = 0
    /\ tPc = "off"
    /\ tPath = <<>>
    /\ tExts = <<>>
    /\ tEntries = <<>>
    /\ tOut = <<>>

SchemaIdle ==
    /\ sKeys = {}
    /\ sName = "none"

ViewIdle ==
    /\ vText = <<>>
    /\ vPage = 0
    /\ vSize = 0
    /\ vQ = <<>>
    /\ vPc = "none"
    /\ vTotal = 0
    /\ vOut = <<>>

LateIdle == SchemaIdle /\ ViewIdle

AuxIdle == ListIdle /\ OpenIdle /\ PermIdle /\ ProbeIdle /\ TreeIdle /\ LateIdle

(* One request thread: requests follow each other, a crash may interrupt. *)
InitStore == StoreInit({1}) /\ ReaderIdle /\ WalkIdle /\ AuxIdle

SpecStore == InitStore /\ [][StoreNext]_vars

(* Two request threads on the same path. *)
InitRace == StoreInit({1, 2}) /\ ReaderIdle /\ WalkIdle /\ AuxIdle

SpecRace == InitRace /\ [][StoreNext]_vars

-----------------------------------------------------------------------------
(* The readers, each run once on a file *)

MaxText  == 5
MaxLimit == 2

ReadAlphabet == {LF, SP, "1", "x"}

ShortTexts == UNION {[1..k -> ReadAlphabet] : k \in 0..MaxText}

(* Files with what the short ones cannot hold: a form feed, a placeholder  *)
(* object as an earlier save wrote it, a document spread over lines.       *)
LongTexts ==
    { <<FF, "1", LF, "x", FF, SP, LF, "1", LF>>,
      <<"{", "1", QT, "x", QT, "}", LF, SP, "x", "1", SP, LF, "1", "1", LF>>,
      <<"{", LF, "1", QT, BSL, "f", QT, LF, "}", LF>>,
      <<"1", LF, LF, "1", LF, "x", LF, "1", LF, "1">> }

ReadTexts == ShortTexts \cup LongTexts

InitRead ==
    /\ rText \in ReadTexts
    /\ rLimit \in 1..MaxLimit
    /\ rOp = "none"
    /\ rOut = [status |-> "none", recs |-> <<>>]
    /\ StoreIdle /\ WalkIdle /\ AuxIdle

RunReadJsonl ==
    /\ rOp = "none"
    /\ rOp' = "read_jsonl"
    /\ rOut' = [status |-> "ok", recs |-> read_jsonl(TRUE, rText)]
    /\ UNCHANGED <<rText, rLimit, storeVars, walkVars, auxVars>>

RunSafeJsonl ==
    /\ rOp = "none"
    /\ rOp' = "_safe_jsonl"
    /\ rOut' = [status |-> "ok", recs |-> safe_jsonl(rText, rLimit)]
    /\ UNCHANGED <<rText, rLimit, storeVars, walkVars, auxVars>>

RunLoadJsonl ==
    /\ rOp = "none"
    /\ rOp' = "load_jsonl"
    /\ rOut' = [status |-> "ok", recs |-> load_jsonl(rText, rLimit)]
    /\ UNCHANGED <<rText, rLimit, storeVars, walkVars, auxVars>>

RunSchemaInfo ==
    /\ rOp = "none"
    /\ rOp' = "schema_info"
    /\ rOut' = schema_scan(rText)
    /\ UNCHANGED <<rText, rLimit, storeVars, walkVars, auxVars>>

ReadNext == RunReadJsonl \/ RunSafeJsonl \/ RunLoadJsonl \/ RunSchemaInfo

SpecRead == InitRead /\ [][ReadNext]_vars

-----------------------------------------------------------------------------
(* What the claims speak of, said without the readers' own helpers *)

SetMin(S) == CHOOSE x \in S : \A y \in S : x <= y
SetMax(S) == CHOOSE x \in S : \A y \in S : y <= x

(* A line is blank when every character of it is whitespace. *)
IsBlankLine(l) == \A k \in 1..Len(l) : l[k] \in {SP, LF, FF}

(* The line from its first to its last non-whitespace character. *)
Trimmed(l) ==
    LET nz == {k \in 1..Len(l) : l[k] \notin {SP, LF, FF}}
    IN  IF nz = {} THEN <<>> ELSE SubSeq(l, SetMin(nz), SetMax(nz))

NonBlankLines(text) == SelectSeq(FileLines(text), LAMBDA l : ~IsBlankLine(l))

PlaceholderTags == {"__raw__", "_raw", "raw"}

(* rec is the record of line: the line's JSON value, or a placeholder      *)
(* holding the trimmed line.                                               *)
RecordOf(rec, line) ==
    \/ \E t \in {line, Trimmed(line)} :
          JsonLoads(t).ok /\ rec = JsonLoads(t).val
    \/ rec.tag \in PlaceholderTags /\ rec.raw = Trimmed(line)

OnePerLine(recs, text) ==
    LET nb == NonBlankLines(text) IN
    /\ Len(recs) = Len(nb)
    /\ \A i \in 1..Len(nb) : RecordOf(recs[i], nb[i])

FirstLinesInOrder(recs, text) ==
    LET nb == NonBlankLines(text) IN
    /\ Len(recs) <= Len(nb)
    /\ \A i \in 1..Len(recs) : RecordOf(recs[i], nb[i])

LineReaders    == {"read_jsonl", "_safe_jsonl", "load_jsonl"}
LimitedReaders == {"_safe_jsonl", "load_jsonl"}

(* C1, as claimed: every reader returns exactly one record per non-blank   *)
(* line of the file, in line order, the i-th record being that of the i-th *)
(* non-blank line.                                                         *)
C1_OnePerNonBlankLine ==
    rOp \in LineReaders => OnePerLine(rOut.recs, rText)

(* C1, amended: read_jsonl returns exactly one record per non-blank line,  *)
(* in line order; _safe_jsonl and load_jsonl do so for a file of at most   *)
(* limit lines, and for a longer file return the records of its first      *)
(* non-blank lines, in line order.                                         *)
C1_OnePerLineUpToLimit ==
    /\ rOp = "read_jsonl" => OnePerLine(rOut.recs, rText)
    /\ rOp \in LimitedReaders =>
          /\ FirstLinesInOrder(rOut.recs, rText)
          /\ Len(FileLines(rText)) <= rLimit => OnePerLine(rOut.recs, rText)

(* read_jsonl has read a file with a blank line, a line that parses and a  *)
(* line that does not. *)
C1_Witness ==
    /\ rOp = "read_jsonl"
    /\ Len(rOut.recs) = 2
    /\ Len(FileLines(rText)) = 3
    /\ \E i \in 1..2 : rOut.recs[i].tag = "num"
    /\ \E i \in 1..2 : rOut.recs[i].tag = "__raw__" /\ rOut.recs[i].raw = <<"x">>

PlaceholderTag(op) ==
    CASE op = "read_jsonl"  -> "__raw__"
      [] op = "_safe_jsonl" -> "_raw"
      [] op = "load_jsonl"  -> "raw"

(* C7: for every line that does not parse as JSON, the record in its       *)
(* position is the reader's placeholder and its raw field is the line with *)
(* leading and trailing whitespace removed, character for character.       *)
C7_RawIsTrimmedLine ==
    rOp \in LineReaders =>
       LET nb == NonBlankLines(rText) IN
       \A i \in 1..Len(rOut.recs) :
          /\ i <= Len(nb)
          /\ ~JsonLoads(Trimmed(nb[i])).ok =>
                /\ rOut.recs[i].tag = PlaceholderTag(rOp)
                /\ rOut.recs[i].raw = Trimmed(nb[i])

(* _safe_jsonl has returned a placeholder for a line that had whitespace   *)
(* on both sides and inside. *)
C7_Witness ==
    /\ rOp = "_safe_jsonl"
    /\ \E i \in 1..Len(rOut.recs) :
          /\ rOut.recs[i].tag = "_raw"
          /\ rOut.recs[i].raw = <<"x", SP, "x">>
          /\ NonBlankLines(rText)[i] = <<SP, "x", SP, "x", LF>>

HasBadLine(text) ==
    \E i \in 1..Len(NonBlankLines(text)) :
       ~JsonLoads(Trimmed(NonBlankLines(text)[i])).ok

(* C8, as claimed: in every read path, the schema scan included, a file    *)
(* with a line that does not parse is still read with success, and every   *)
(* well-formed line before and after it is returned as its own record.     *)
(* (A reader with a limit is looked at on files within its limit.)         *)
C8_ParseFailureIsLocal ==
    ( /\ rOp # "none"
      /\ HasBadLine(rText)
      /\ rOp \in LimitedReaders => Len(FileLines(rText)) <= rLimit )
    => LET nb == NonBlankLines(rText) IN
       /\ rOut.status = "ok"
       /\ Len(rOut.recs) = Len(nb)
       /\ \A i \in 1..Len(nb) :
             JsonLoads(nb[i]).ok => rOut.recs[i] = JsonLoads(nb[i]).val

-----------------------------------------------------------------------------
(* Claims about the record store *)

NewFile(p) == [exists |-> TRUE, text |-> Serialize(newrows[p])]

(* C2: when write_jsonl(path, rows) has completed, read_jsonl(path)        *)
(* returns a list equal to rows: the same length, order and values.        *)
C2_SaveThenLoad ==
    \A p \in Procs :
       pc[p] = "done" =>
          /\ FileState("main").exists
          /\ read_jsonl(TRUE, FileState("main").text) = newrows[p]

(* A save over an existing file has completed whose list holds a number    *)
(* and a placeholder with a form feed and a quote in its raw text.         *)
C2_Witness ==
    /\ pc[1] = "done"
    /\ before[1].main.exists
    /\ Len(newrows[1]) >= 2
    /\ \E i \in 1..Len(newrows[1]) : newrows[1][i].tag = "num"
    /\ \E i \in 1..Len(newrows[1]) :
          /\ newrows[1][i].tag = "__raw__"
          /\ \E k \in 1..Len(newrows[1][i].raw) : newrows[1][i].raw[k] = FF
          /\ \E k \in 1..Len(newrows[1][i].raw) : newrows[1][i].raw[k] = QT

(* C3: wherever a single save stands or was cut short by a crash, the main *)
(* file is exactly what it was before the save or exactly the complete new *)
(* list; it is never empty, cut short or a mix.                            *)
C3_MainOldOrNew ==
    \A p \in Procs :
       pc[p] \in SavingPcs \cup {"crashed", "done"} =>
          \/ FileState("main") = before[p].main
          \/ FileState("main") = NewFile(p)

(* A crash has cut a save short after part of the new list reached the     *)
(* .tmp sibling; the main file still holds the old content.                *)
C3_Witness ==
    /\ pc[1] = "crashed"
    /\ FileState("tmp").exists
    /\ FileState("tmp").text # <<>>
    /\ Len(FileState("tmp").text) < Len(Serialize(newrows[1]))
    /\ before[1].main.exists
    /\ before[1].main # NewFile(1)
    /\ FileState("main") = before[1].main

OutOfRange(idx, n) == idx < 0 \/ idx >= n

BadIndex(p) ==
    req[p].kind \in {"update", "delete"} /\ OutOfRange(req[p].idx, Len(rows[p]))

BadPayload(p) ==
    req[p].kind \in {"update", "add"} /\ ~JsonLoads(req[p].payload).ok

FilesAsBefore(p) ==
    /\ FileState("main") = before[p].main
    /\ FileState("bak") = before[p].bak

(* C4: an update or delete whose idx is below 0 or not below the number of *)
(* records is answered "Index out of range", an update (its index being    *)
(* in range) or add whose payload is not JSON is answered with the parse   *)
(* error, and either way the file and its .bak are as they were.           *)
C4_RejectedLeavesFiles ==
    \A p \in Procs :
       pc[p] # "idle" =>
          /\ BadIndex(p) => pc[p] = "rejected404" /\ FilesAsBefore(p)
          /\ (~BadIndex(p) /\ BadPayload(p)) =>
                pc[p] = "rejected400" /\ FilesAsBefore(p)

(* The second request, a delete at idx = number of records of a file that  *)
(* has a .bak, has been rejected. *)
C4_Witness ==
    /\ pc[1] = "rejected404"
    /\ started = 2
    /\ req[1].kind = "delete"
    /\ req[1].idx = Len(rows[1])
    /\ Len(rows[1]) >= 1
    /\ FileState("bak").exists

Finished(p) == pc[p] \in {"done", "failed", "rejected404", "rejected400"}

(* The complete files the main file may hold while the requests that have  *)
(* started are all still at hand: what a request found, what it saves.     *)
WholeFiles ==
    {before[p].main : p \in {q \in Procs : pc[q] # "idle"}}
    \cup {NewFile(p) : p \in {q \in Procs : pc[q] \in SavingPcs \cup {"done", "failed"}}}

(* C5, as claimed: with two mutation requests on the same path interleaved *)
(* in any order, the main file never holds a partly written list or a mix  *)
(* of the two writers' lines, and once both have finished it holds exactly *)
(* the list of the writer whose rename ran last.                           *)
C5_LastSaveWins ==
    (started >= 1
       /\ Cardinality({p \in Procs : pc[p] # "idle"}) = started
       /\ \A p \in Procs : pc[p] # "crashed")
    => /\ FileState("main") \in WholeFiles
       /\ ((\A p \in Procs : Finished(p)) /\ renames # <<>>) =>
             FileState("main") = NewFile(renames[Len(renames)])

(* C6: when a save has completed, if the file existed before that save the *)
(* .bak exists and holds what the main file held immediately before it; if *)
(* the save created the file, it created no .bak (the .bak is as before).  *)
C6_BackupIsPreviousMain ==
    \A p \in Procs :
       pc[p] = "done" =>
          IF before[p].main.exists
          THEN FileState("bak") = before[p].main
          ELSE FileState("bak") = before[p].bak

(* A second save has completed over an existing file whose .bak held       *)
(* something else before. *)
C6_Witness ==
    /\ pc[1] = "done"
    /\ started = 2
    /\ before[1].main.exists
    /\ before[1].bak.exists
    /\ before[1].bak # before[1].main
    /\ FileState("bak") = before[1].main
    /\ FileState("main") # FileState("bak")

-----------------------------------------------------------------------------
(* The tree walker (jvu.iter_files over os.walk) *)

(* The file system walked.  A path is the sequence of its names:           *)
(*     /t/b.jsonl   /t/d/a.json                                            *)
(*     /h/c.json    /h/c.jsonl.bak   /h/n.txt   /h/l -> /t/d               *)
RealDirs  == { <<>>, <<"t">>, <<"t", "d">>, <<"h">> }
RealFiles == { <<"t", "b.jsonl">>, <<"t", "d", "a.json">>, <<"h", "c.json">>,
               <<"h", "c.jsonl.bak">>, <<"h", "n.txt">> }
LinkPaths == { <<"h", "l">> }
LinkTarget(p) == <<"t", "d">>

(* os.scandir of a real directory, in the order it lists the names. *)
Listing(d) ==
    CASE d = <<>>           -> <<"h", "t">>
      [] d = <<"t">>        -> <<"b.jsonl", "d">>
      [] d = <<"t", "d">>   -> <<"a.json">>
      [] d = <<"h">>        -> <<"c.json", "c.jsonl.bak", "l", "n.txt">>
      [] OTHER              -> <<>>

(* Path.suffix.lower() of a file name. *)
Suffix(name) ==
    CASE name = "a.json"      -> ".json"
      [] name = "b.jsonl"     -> ".jsonl"
      [] name = "c.json"      -> ".json"
      [] name = "c.jsonl.bak" -> ".bak"
      [] name = "n.txt"       -> ".txt"
      [] OTHER                -> ""

(* _norm_exts: a leading dot is added when missing, the case is lowered. *)
NormExt(e) ==
    CASE e \in {"json", ".json", "JSON", ".JSON"}     -> ".json"
      [] e \in {"jsonl", ".jsonl", "JSONL", ".JSONL"} -> ".jsonl"
      [] e \in {"bak", ".bak"}                        -> ".bak"
      [] e \in {"txt", ".txt"}                        -> ".txt"
      [] OTHER                                        -> e

norm_exts(exts) == [k \in 1..Len(exts) |-> NormExt(exts[k])]

(* Path.resolve(): symbolic links followed, component by component. *)
RECURSIVE ResolveFrom(_, _)
ResolveFrom(done, rest) ==
    IF rest = <<>> THEN done
    ELSE LET q == Append(done, Head(rest)) IN
         IF q \in LinkPaths THEN ResolveFrom(LinkTarget(q), Tail(rest))
         ELSE ResolveFrom(q, Tail(rest))

Resolve(p) == ResolveFrom(<<>>, p)

IsDir(p)  == Resolve(p) \in RealDirs
IsLink(p) ==
    p # <<>> /\ Append(Resolve(SubSeq(p, 1, Len(p) - 1)), p[Len(p)]) \in LinkPaths

IsPrefix(a, b) == Len(a) <= Len(b) /\ SubSeq(b, 1, Len(a)) = a

(* os.scandir(top) raises PermissionError. *)
ScandirDenied(top, den) == Resolve(top) \in den

(* _prune_dir: the resolved path is in SKIP_DIRS (PRUNE_GLOBS is empty). *)
PruneDir(path, skip) == Resolve(path) \in skip

(* "if len(found) >= max_files: return found" *)
CapReached(n, max) == n >= max

(* The loop over the files of one directory: [found, returned]. *)
RECURSIVE AppendMatches(_, _, _, _, _)
AppendMatches(found, top, names, exts, max) ==
    IF names = <<>> THEN [found |-> found, returned |-> FALSE]
    ELSE LET name == Head(names) IN
         IF exts # <<>> /\ \A k \in 1..Len(exts) : exts[k] # Suffix(name)
         THEN AppendMatches(found, top, Tail(names), exts, max)
         ELSE LET f == Append(found, Append(top, name)) IN
              IF CapReached(Len(f), max)
              THEN [found |-> f, returned |-> TRUE]
              ELSE AppendMatches(f, top, Tail(names), exts, max)

(* Inputs of the walk *)
MaxRoots   == 2
MaxFilesArg == 3

SkipChoices == SUBSET { <<"t">>, <<"t", "d">>, <<"h">> }
RootChoices == { <<>>, <<"t">>, <<"t", "d">>, <<"h">>, <<"h", "l">> }
ExtChoices  == { <<>>, <<"json">>, <<".JSON", "jsonl">> }

InitWalk ==
    /\ wSkip \in SkipChoices
    /\ wRoots \in UNION {[1..k -> RootChoices] : k \in 0..MaxRoots}
    /\ wExts \in ExtChoices
    /\ wMax \in (-1)..MaxFilesArg
    /\ wPc = "roots"
    /\ wRootIx = 1
    /\ wStack = <<>>
    /\ wFound = <<>>
    /\ wWalked = {}
    /\ ReaderIdle /\ StoreIdle /\ AuxIdle

(* "for root in roots: if _prune_dir(root): continue" *)
SkipRoot ==
    /\ wPc = "roots"
    /\ wRootIx <= Len(wRoots)
    /\ PruneDir(wRoots[wRootIx], wSkip)
    /\ wRootIx' = wRootIx + 1
    /\ UNCHANGED <<wSkip, wRoots, wExts, wMax, wPc, wStack, wFound, wWalked>>
    /\ UNCHANGED <<readerVars, storeVars, auxVars>>

(* os.walk(root) starts. *)
EnterRoot ==
    /\ wPc = "roots"
    /\ wRootIx <= Len(wRoots)
    /\ ~PruneDir(wRoots[wRootIx], wSkip)
    /\ wStack' = <<wRoots[wRootIx]>>
    /\ wRootIx' = wRootIx + 1
    /\ wPc' = "walk"
    /\ UNCHANGED <<wSkip, wRoots, wExts, wMax, wFound, wWalked>>
    /\ UNCHANGED <<readerVars, storeVars, auxVars>>

(* One step of os.walk with the loop body of iter_files: the directory is  *)
(* listed, its subdirectories are pruned in place, its files are appended  *)
(* up to the cap; os.walk then goes down the subdirectories left that are  *)
(* not symbolic links.  A directory whose listing is denied is passed over *)
(* by os.walk (onerror is None): nothing is yielded for it.                *)
WalkDir ==
    /\ wPc = "walk"
    /\ wStack # <<>>
    /\ IF ScandirDenied(Head(wStack), denied)
       THEN /\ wStack' = Tail(wStack)
            /\ UNCHANGED <<wPc, wFound, wWalked>>
       ELSE
       LET top   == Head(wStack)
           names == Listing(Resolve(top))
           dirs  == SelectSeq(names, LAMBDA n : IsDir(Append(top, n)))
           files == SelectSeq(names, LAMBDA n : ~IsDir(Append(top, n)))
           kept  == SelectSeq(dirs, LAMBDA n : ~PruneDir(Append(top, n), wSkip))
           down  == SelectSeq(kept, LAMBDA n : ~IsLink(Append(top, n)))
           r     == AppendMatches(wFound, top, files, norm_exts(wExts), wMax)
       IN  /\ wWalked' = wWalked \cup {top}
           /\ wFound' = r.found
           /\ IF r.returned
              THEN wPc' = "done" /\ wStack' = <<>>
              ELSE /\ wPc' = "walk"
                   /\ wStack' = [k \in 1..Len(down) |-> Append(top, down[k])]
                                \o Tail(wStack)
    /\ UNCHANGED <<wSkip, wRoots, wExts, wMax, wRootIx>>
    /\ UNCHANGED <<readerVars, storeVars, auxVars>>

(* os.walk(root) is exhausted. *)
LeaveRoot ==
    /\ wPc = "walk"
    /\ wStack = <<>>
    /\ wPc' = "roots"
    /\ UNCHANGED <<wSkip, wRoots, wExts, wMax, wRootIx, wStack, wFound, wWalked>>
    /\ UNCHANGED <<readerVars, storeVars, auxVars>>

(* "return found" after the last root. *)
WalkReturn ==
    /\ wPc = "roots"
    /\ wRootIx > Len(wRoots)
    /\ wPc' = "done"
    /\ UNCHANGED <<wSkip, wRoots, wExts, wMax, wRootIx, wStack, wFound, wWalked>>
    /\ UNCHANGED <<readerVars, storeVars, auxVars>>

(* fnmatch of a file name against the two patterns discovery globs with. *)
MatchesGlob(name, pat) ==
    CASE pat = "*.json*" -> name \in {"a.json", "b.jsonl", "c.json", "c.jsonl.bak"}
      [] pat = "*.jsonl" -> name \in {"b.jsonl"}
      [] OTHER           -> FALSE

(* str(p).endswith(".jsonl.bak") *)
EndsWithJsonlBak(name) == name \in {"c.jsonl.bak"}

(* Path.rglob(pat) from top: the matching entries of a directory, then of  *)
(* its subdirectories in turn; symbolic links to directories are not gone  *)
(* into.                                                                   *)
RECURSIVE RGlob(_, _)
RECURSIVE RGlobEach(_, _, _)
RGlob(top, pat) ==
    LET names == Listing(Resolve(top))
        hits  == SelectSeq(names, LAMBDA n : MatchesGlob(n, pat))
        subs  == SelectSeq(names, LAMBDA n : IsDir(Append(top, n))
                                             /\ ~IsLink(Append(top, n)))
    IN  [k \in 1..Len(hits) |-> Append(top, hits[k])]
        \o RGlobEach(top, subs, pat)

RGlobEach(top, subs, pat) ==
    IF subs = <<>> THEN <<>>
    ELSE RGlob(Append(top, Head(subs)), pat) \o RGlobEach(top, Tail(subs), pat)

(* viewer.list_files: every path under the project root that matches       *)
(* "*.json*".                                                              *)
list_files(project_root) == RGlob(project_root, "*.json*")

(* jsonl_ui.list_jsonl_files: the "*.jsonl" entries of DATA_DIR, sorted,   *)
(* whose last suffix is .jsonl and which do not end in .jsonl.bak.         *)
list_jsonl_files(data_dir) ==
    LET names == SelectSeq(Listing(Resolve(data_dir)),
                           LAMBDA n : MatchesGlob(n, "*.jsonl"))
        kept  == SelectSeq(names, LAMBDA n : Suffix(n) = ".jsonl"
                                             /\ ~EndsWithJsonlBak(n))
    IN  [k \in 1..Len(kept) |-> Append(data_dir, kept[k])]

(* GET /api/files of viewer.py, with its project root. *)
ListFiles ==
    /\ lOp = "none"
    /\ \E d \in RootChoices :
          /\ lOp' = "list_files"
          /\ lOut' = list_files(d)
    /\ UNCHANGED notList

(* The file list of jsonl_ui.py, with its DATA_DIR. *)
ListJsonlFiles ==
    /\ lOp = "none"
    /\ \E d \in RootChoices :
          /\ lOp' = "list_jsonl_files"
          /\ lOut' = list_jsonl_files(d)
    /\ UNCHANGED notList

WalkNext ==
    \/ SkipRoot \/ EnterRoot \/ WalkDir \/ LeaveRoot \/ WalkReturn
    \/ ListFiles \/ ListJsonlFiles

SpecWalk == InitWalk /\ [][WalkNext]_vars

-----------------------------------------------------------------------------
(* Claims about the tree walker *)

FoundSet == {wFound[k] : k \in 1..Len(wFound)}

NeverListsSkipped == \A d \in wWalked : Resolve(d) \notin wSkip

(* C9, as claimed: iter_files never goes into a directory whose resolved   *)
(* path is in the skip set, and no returned path has a skip-set directory  *)
(* as a prefix, whatever the roots are.                                    *)
C9_NoSkippedPrefix ==
    /\ NeverListsSkipped
    /\ \A f \in FoundSet : \A s \in wSkip : ~IsPrefix(s, f)

(* C10, as claimed: iter_files returns at most max_files paths, for every  *)
(* integer max_files, 0 and negative values included (for which that is no *)
(* path at all).                                                           *)
C10_AtMostMaxFiles ==
    wPc = "done" => Len(wFound) <= (IF wMax < 0 THEN 0 ELSE wMax)

(* The last suffix of a path is .bak. *)
IsBackupPath(f) == f # <<>> /\ f[Len(f)] \in {"c.jsonl.bak"}

(* C11, as claimed: no discovery operation returns a path ending in .bak,  *)
(* whatever extension filter the caller passes.                            *)
C11_NoBackupDiscovered ==
    /\ \A f \in FoundSet : ~IsBackupPath(f)
    /\ \A k \in 1..Len(lOut) : ~IsBackupPath(lOut[k])

-----------------------------------------------------------------------------
(* The readers called on a path: the file may be missing or unreadable *)

(* How a call ends: it returns a list, returns None, or raises. *)
Returned(recs) == [status |-> "returned", value |-> "list", recs |-> recs]
ReturnedNone   == [status |-> "returned", value |-> "None", recs |-> <<>>]
Raised(exc)    == [status |-> "raised", value |-> exc, recs |-> <<>>]

(* open(path, "r"): the exception it raises, "" when it opens. *)
OpenError(state) ==
    CASE state = "missing" -> "FileNotFoundError"
      [] state = "denied"  -> "PermissionError"
      [] OTHER             -> ""

(* read_jsonl(path): [] when path.exists() is false; open() is outside any *)
(* try.                                                                    *)
read_jsonl_call(state, text) ==
    IF state = "missing" THEN Returned(<<>>)
    ELSE IF OpenError(state) # "" THEN Raised(OpenError(state))
         ELSE Returned(read_jsonl(TRUE, text))

(* _safe_jsonl(path, limit): "except Exception as e" around the whole read *)
(* appends {"error": str(e)}.                                              *)
safe_jsonl_call(state, text, limit) ==
    IF OpenError(state) # "" THEN Returned(<<RawObj("error", <<>>)>>)
    ELSE Returned(safe_jsonl(text, limit))

(* load_jsonl(path, limit): only FileNotFoundError is caught, and answered *)
(* with None.                                                              *)
load_jsonl_call(state, text, limit) ==
    IF OpenError(state) = "FileNotFoundError" THEN ReturnedNone
    ELSE IF OpenError(state) # "" THEN Raised(OpenError(state))
         ELSE Returned(load_jsonl(text, limit))

OpenTexts == ReadTexts
OpenStates == {"readable", "missing", "denied"}

InitOpen ==
    /\ oState \in OpenStates
    /\ oText \in (IF oState = "missing" THEN {<<>>} ELSE OpenTexts)
    /\ oLimit \in 0..MaxLimit
    /\ oOp = "none"
    /\ oOut = NoCall
    /\ ReaderIdle /\ StoreIdle /\ WalkIdle /\ ListIdle
    /\ PermIdle /\ ProbeIdle /\ TreeIdle /\ LateIdle

CallReadJsonl ==
    /\ oOp = "none"
    /\ oOp' = "read_jsonl"
    /\ oOut' = read_jsonl_call(oState, oText)
    /\ UNCHANGED <<oState, oText, oLimit>>
    /\ UNCHANGED notOpen

CallSafeJsonl ==
    /\ oOp = "none"
    /\ oOp' = "_safe_jsonl"
    /\ oOut' = safe_jsonl_call(oState, oText, oLimit)
    /\ UNCHANGED <<oState, oText, oLimit>>
    /\ UNCHANGED notOpen

CallLoadJsonl ==
    /\ oOp = "none"
    /\ oOp' = "load_jsonl"
    /\ oOut' = load_jsonl_call(oState, oText, oLimit)
    /\ UNCHANGED <<oState, oText, oLimit>>
    /\ UNCHANGED notOpen

OpenNext == CallReadJsonl \/ CallSafeJsonl \/ CallLoadJsonl

SpecOpen == InitOpen /\ [][OpenNext]_vars

(* C12, as claimed: a read of a file that cannot be read at all (missing,  *)
(* or open denied) returns an empty list or a list with a single error     *)
(* record, and raises nothing (None is let pass as an empty result).       *)
C12_UnreadableGivesEmptyOrError ==
    (oOp # "none" /\ oState \in {"missing", "denied"}) =>
       /\ oOut.status = "returned"
       /\ \/ oOut.recs = <<>>
          \/ Len(oOut.recs) = 1 /\ oOut.recs[1].tag = "error"

-----------------------------------------------------------------------------
(* The probe _dir_has_match(root, exts, max_depth, budget), call by call *)

IsFile(p) == Resolve(p) \in RealFiles

(* The call without its "except PermissionError". *)
ProbeFrameUncaught(top, max_depth, budget, den) ==
    IF max_depth < 0 \/ budget <= 0
    THEN [dir |-> top, depth |-> max_depth, budget |-> budget,
          rest |-> <<>>, ret |-> "false"]
    ELSE IF ScandirDenied(top, den)
    THEN [dir |-> top, depth |-> max_depth, budget |-> budget,
          rest |-> <<>>, ret |-> "raise"]
    ELSE [dir |-> top, depth |-> max_depth, budget |-> budget,
          rest |-> Listing(Resolve(top)), ret |-> "run"]

(* The call without its test of max_depth. *)
ProbeFrameNoDepthTest(top, max_depth, budget, den) ==
    IF budget <= 0 \/ ScandirDenied(top, den)
    THEN [dir |-> top, depth |-> max_depth, budget |-> budget,
          rest |-> <<>>, ret |-> "false"]
    ELSE [dir |-> top, depth |-> max_depth, budget |-> budget,
          rest |-> Listing(Resolve(top)), ret |-> "run"]

(* A call that has just been entered.  "if max_depth < 0 or budget <= 0:   *)
(* return False"; a PermissionError of os.scandir is caught by the call    *)
(* itself and answered False; otherwise the entries are gone through, with *)
(* the call's own copy of budget.                                          *)
ProbeFrame(top, max_depth, budget, den) ==
    IF max_depth < 0 \/ budget <= 0 \/ ScandirDenied(top, den)
    THEN [dir |-> top, depth |-> max_depth, budget |-> budget,
          rest |-> <<>>, ret |-> "false"]
    ELSE [dir |-> top, depth |-> max_depth, budget |-> budget,
          rest |-> Listing(Resolve(top)), ret |-> "run"]

(* "if not exts or p.suffix.lower() in exts" *)
ExtMatches(name, exts) ==
    exts = <<>> \/ \E k \in 1..Len(exts) : exts[k] = Suffix(name)

(* One turn of "for entry in it" in the innermost call. *)
ProbeEntry ==
    /\ pStack # <<>>
    /\ Head(pStack).ret = "run"
    /\ Head(pStack).rest # <<>>
    /\ LET f    == Head(pStack)
           name == Head(f.rest)
           p    == Append(f.dir, name)
           b    == f.budget - 1
           g    == [f EXCEPT !.budget = b, !.rest = Tail(f.rest)]
       IN  IF b <= 0
           THEN /\ pStack' = <<[g EXCEPT !.ret = "false"]>> \o Tail(pStack)
                /\ pSeen' = pSeen
           ELSE /\ pSeen' = Append(pSeen, p)
                /\ IF PruneDir(p, wSkip)
                   THEN pStack' = <<g>> \o Tail(pStack)
                   ELSE IF IsFile(p)
                   THEN pStack' =
                          <<IF ExtMatches(name, pExts)
                            THEN [g EXCEPT !.ret = "true"] ELSE g>>
                          \o Tail(pStack)
                   ELSE IF IsDir(p) /\ ~IsLink(p)
                   THEN pStack' = <<ProbeFrame(p, f.depth - 1, b, denied), g>>
                                  \o Tail(pStack)
                   ELSE pStack' = <<g>> \o Tail(pStack)
    /\ UNCHANGED <<pRoot, pExts, pDepth, pBudget, pResult>>
    /\ UNCHANGED <<denied, treeVars>>
    /\ UNCHANGED <<readerVars, storeVars, walkVars, listVars, openVars, lateVars>>

(* The entries are exhausted: "return False" at the end of the call. *)
ProbeExhausted ==
    /\ pStack # <<>>
    /\ Head(pStack).ret = "run"
    /\ Head(pStack).rest = <<>>
    /\ pStack' = <<[Head(pStack) EXCEPT !.ret = "false"]>> \o Tail(pStack)
    /\ UNCHANGED <<pRoot, pExts, pDepth, pBudget, pResult, pSeen>>
    /\ UNCHANGED <<denied, treeVars>>
    /\ UNCHANGED <<readerVars, storeVars, walkVars, listVars, openVars, lateVars>>

(* The innermost call returns to its caller: True makes the caller return  *)
(* True, False lets it go on with its next entry and its own budget; an    *)
(* exception no call has caught ends them all.                             *)
ProbeReturn ==
    /\ pStack # <<>>
    /\ Head(pStack).ret # "run"
    /\ IF Len(pStack) = 1 \/ Head(pStack).ret = "raise"
       THEN /\ pResult' = Head(pStack).ret
            /\ pStack' = <<>>
       ELSE /\ pResult' = pResult
            /\ pStack' =
                 <<IF Head(pStack).ret = "true"
                   THEN [pStack[2] EXCEPT !.ret = "true"] ELSE pStack[2]>>
                 \o Tail(Tail(pStack))
    /\ UNCHANGED <<pRoot, pExts, pDepth, pBudget, pSeen>>
    /\ UNCHANGED <<denied, treeVars>>
    /\ UNCHANGED <<readerVars, storeVars, walkVars, listVars, openVars, lateVars>>

(* Inputs of the probe *)
MaxProbeDepth == 2
MaxBudget     == 5

TreeSkips     == { {}, { <<"t", "d">> }, { <<"h">> } }
DeniedChoices == { {}, { <<"h">> }, { <<"t", "d">> }, { <<"t">>, <<"h">> } }
ProbeExts     == { <<>>, <<".json">>, <<".txt">>, <<".json", ".jsonl">>, <<".zip">> }

(* The walker at rest, SKIP_DIRS being set. *)
WalkOff ==
    /\ wRoots = <<>> /\ wExts = <<>> /\ wMax = 0 /\ wPc = "idle"
    /\ wRootIx = 0 /\ wStack = <<>> /\ wFound = <<>> /\ wWalked = {}

InitProbe ==
    /\ wSkip \in TreeSkips
    /\ denied \in DeniedChoices
    /\ pRoot \in RootChoices
    /\ pExts \in ProbeExts
    /\ pDepth \in (-1)..MaxProbeDepth
    /\ pBudget \in 0..MaxBudget
    /\ pStack = <<ProbeFrame(pRoot, pDepth, pBudget, denied)>>
    /\ pResult = "none"
    /\ pSeen = <<>>
    /\ WalkOff /\ TreeIdle
    /\ ReaderIdle /\ StoreIdle /\ ListIdle /\ OpenIdle /\ LateIdle

ProbeNext == ProbeEntry \/ ProbeExhausted \/ ProbeReturn

SpecProbe == InitProbe /\ [][ProbeNext]_vars

(* The probe runs on: a call that can take a step takes it. *)
SpecProbeFair == SpecProbe /\ WF_vars(ProbeNext)

(* Claims about the probe *)

(* How many levels below the outermost root an examined entry lies. *)
LevelsBelowRoot(e) == Len(e) - Len(pRoot)

ProbeOver == pResult # "none"

NoDeeperThan(n) == \A k \in 1..Len(pSeen) : LevelsBelowRoot(pSeen[k]) <= n

(* C14, as claimed: the probe terminates for every tree, max_depth and     *)
(* budget, and never examines an entry more than max_depth levels below    *)
(* root.                                                                   *)
C14_TerminatesWithinDepth ==
    /\ <>ProbeOver
    /\ [](pDepth >= 0 => NoDeeperThan(pDepth))

(* C14, amended: the probe terminates for every tree, max_depth and        *)
(* budget, and never examines an entry more than max_depth + 1 levels      *)
(* below root (a call with max_depth = 0 still examines the entries of its *)
(* root; no entry is examined when max_depth is negative).                 *)
C14_TerminatesWithinDepthPlusOne ==
    /\ <>ProbeOver
    /\ [](NoDeeperThan(pDepth + 1) /\ (pDepth < 0 => pSeen = <<>>))

(* A probe of / with max_depth 1 is over: it has examined /t/d, two levels *)
(* down, and nothing inside it.                                            *)
C14_Witness ==
    /\ ProbeOver
    /\ pRoot = <<>>
    /\ pDepth = 1
    /\ \E k \in 1..Len(pSeen) : pSeen[k] = <<"t", "d">>
    /\ \A k \in 1..Len(pSeen) : pSeen[k] # <<"t", "d", "a.json">>

(* C15, as claimed: one probe examines at most budget directory entries in *)
(* total, counted over root and all the subdirectories it goes into.       *)
C15_AtMostBudgetEntries ==
    Len(pSeen) <= pBudget

-----------------------------------------------------------------------------
(* The one-level listing iter_tree(path, exts), entry by entry *)

TreeEntryOf(type, p) == [type |-> type, name |-> p[Len(p)], path |-> Resolve(p)]

(* sorted(path.iterdir(), key=lambda p: (p.is_file(), p.name.lower())):    *)
(* what is not a file first, then the files, each by name.                 *)
SortedEntries(top) ==
    LET names == Listing(Resolve(top)) IN
    SelectSeq(names, LAMBDA n : ~IsFile(Append(top, n)))
    \o SelectSeq(names, LAMBDA n : IsFile(Append(top, n)))

(* path.iterdir(); "except PermissionError: return []". *)
TreeList ==
    /\ tPc = "list"
    /\ IF ScandirDenied(tPath, denied)
       THEN /\ tPc' = "done"
            /\ tEntries' = <<>>
       ELSE /\ tPc' = "entries"
            /\ tEntries' = SortedEntries(tPath)
    /\ UNCHANGED <<hideEmptyDirs, dirProbeDepth, dirProbeLimit, tPath, tExts,
                   tOut>>
    /\ UNCHANGED <<denied, probeVars>>
    /\ UNCHANGED <<readerVars, storeVars, walkVars, listVars, openVars, lateVars>>

(* One turn of "for p in entries", up to the call of the probe when there  *)
(* is one.                                                                 *)
TreeEntry ==
    /\ tPc = "entries"
    /\ tEntries # <<>>
    /\ LET name == Head(tEntries)
           p    == Append(tPath, name)
       IN  IF PruneDir(p, wSkip)
           THEN /\ tEntries' = Tail(tEntries)
                /\ UNCHANGED <<tPc, tOut, probeVars>>
           ELSE IF IsDir(p)
           THEN IF hideEmptyDirs
                THEN /\ tPc' = "probing"
                     /\ pRoot' = p
                     /\ pExts' = norm_exts(tExts)
                     /\ pDepth' = dirProbeDepth
                     /\ pBudget' = dirProbeLimit
                     /\ pStack' = <<ProbeFrame(p, dirProbeDepth, dirProbeLimit,
                                               denied)>>
                     /\ pResult' = "none"
                     /\ pSeen' = <<>>
                     /\ UNCHANGED <<tEntries, tOut>>
                ELSE /\ tOut' = Append(tOut, TreeEntryOf("dir", p))
                     /\ tEntries' = Tail(tEntries)
                     /\ UNCHANGED <<tPc, probeVars>>
           ELSE /\ tOut' = IF ExtMatches(name, norm_exts(tExts))
                           THEN Append(tOut, TreeEntryOf("file", p))
                           ELSE tOut
                /\ tEntries' = Tail(tEntries)
                /\ UNCHANGED <<tPc, probeVars>>
    /\ UNCHANGED <<hideEmptyDirs, dirProbeDepth, dirProbeLimit, tPath, tExts>>
    /\ UNCHANGED denied
    /\ UNCHANGED <<readerVars, storeVars, walkVars, listVars, openVars, lateVars>>

(* The probe has answered: a directory without a match is left out.  The   *)
(* call is outside iter_tree's try: an exception of the probe would leave  *)
(* iter_tree.                                                              *)
TreeProbed ==
    /\ tPc = "probing"
    /\ pResult # "none"
    /\ LET p == Append(tPath, Head(tEntries))
       IN  IF pResult = "raise"
           THEN /\ tPc' = "raised"
                /\ UNCHANGED <<tEntries, tOut>>
           ELSE /\ tPc' = "entries"
                /\ tEntries' = Tail(tEntries)
                /\ tOut' = IF pResult = "true"
                           THEN Append(tOut, TreeEntryOf("dir", p))
                           ELSE tOut
    /\ UNCHANGED <<hideEmptyDirs, dirProbeDepth, dirProbeLimit, tPath, tExts>>
    /\ UNCHANGED <<denied, probeVars>>
    /\ UNCHANGED <<readerVars, storeVars, walkVars, listVars, openVars, lateVars>>

(* "return out" *)
TreeReturn ==
    /\ tPc = "entries"
    /\ tEntries = <<>>
    /\ tPc' = "done"
    /\ UNCHANGED <<hideEmptyDirs, dirProbeDepth, dirProbeLimit, tPath, tExts,
                   tEntries, tOut>>
    /\ UNCHANGED <<denied, probeVars>>
    /\ UNCHANGED <<readerVars, storeVars, walkVars, listVars, openVars, lateVars>>

(* iter_tree is called on a tree with denied directories ... *)
InitTreeListing ==
    /\ hideEmptyDirs \in BOOLEAN
    /\ dirProbeDepth \in 0..MaxProbeDepth
    /\ dirProbeLimit \in 1..MaxBudget
    /\ tPc = "list"
    /\ tPath \in RootChoices
    /\ tExts \in ExtChoices
    /\ tEntries = <<>>
    /\ tOut = <<>>
    /\ WalkOff

(* ... or iter_files is. *)
InitTreeWalk ==
    /\ wRoots \in UNION {[1..k -> RootChoices] : k \in 1..MaxRoots}
    /\ wExts \in ExtChoices
    /\ wMax \in 1..(MaxFilesArg + 3)
    /\ wPc = "roots"
    /\ wRootIx = 1
    /\ wStack = <<>>
    /\ wFound = <<>>
    /\ wWalked = {}
    /\ TreeIdle

InitTree ==
    /\ wSkip \in TreeSkips
    /\ denied \in DeniedChoices
    /\ InitTreeListing \/ InitTreeWalk
    /\ ProbeIdle
    /\ ReaderIdle /\ StoreIdle /\ ListIdle /\ OpenIdle /\ LateIdle

TreeNext ==
    \/ TreeList \/ TreeEntry \/ TreeProbed \/ TreeReturn
    \/ ProbeEntry \/ ProbeExhausted \/ ProbeReturn
    \/ SkipRoot \/ EnterRoot \/ WalkDir \/ LeaveRoot \/ WalkReturn

SpecTree == InitTree /\ [][TreeNext]_vars

(* iter_tree or iter_files runs on: a step that can be taken is taken. *)
SpecTreeFair == SpecTree /\ WF_vars(TreeNext)

(* Claims about permission errors in traversal *)

Readable(d) == Resolve(d) \notin denied
Pruned(d)   == Resolve(d) \in wSkip

WantedExt(name, exts) ==
    exts = <<>> \/ \E k \in 1..Len(exts) : NormExt(exts[k]) = Suffix(name)

(* The files below a root, as the paths a walk from that root names them. *)
FilesBelow(r) ==
    { r \o SubSeq(g, Len(Resolve(r)) + 1, Len(g)) :
        g \in {h \in RealFiles : IsPrefix(Resolve(r), h)} }

(* Every directory from the root down to the file can be listed, and none  *)
(* below the root is pruned.                                               *)
OpenWayTo(r, f) ==
    /\ ~Pruned(r)
    /\ \A n \in Len(r)..(Len(f) - 1) :
          /\ Readable(SubSeq(f, 1, n))
          /\ n > Len(r) => ~Pruned(SubSeq(f, 1, n))

TreeOutHas(type, p) ==
    \E k \in 1..Len(tOut) : tOut[k].type = type /\ tOut[k].path = Resolve(p)

TraversalOver == tPc = "done" \/ wPc = "done"

NothingRaised == tPc # "raised" /\ pResult # "raise"

(* iter_files, the cap not reached: every wanted file with an open way     *)
(* from one of the roots is returned.                                      *)
WalkReportsReadable ==
    (wPc = "done" /\ Len(wFound) < wMax) =>
       \A k \in 1..Len(wRoots) : \A f \in FilesBelow(wRoots[k]) :
          (OpenWayTo(wRoots[k], f) /\ WantedExt(f[Len(f)], wExts))
             => f \in FoundSet

(* iter_tree: a path that cannot be listed gives []; otherwise a denied    *)
(* subdirectory counts as empty, and the entries beside it are reported.   *)
TreeReportsReadable ==
    tPc = "done" =>
       IF ~Readable(tPath) THEN tOut = <<>>
       ELSE \A k \in 1..Len(Listing(Resolve(tPath))) :
               LET name == Listing(Resolve(tPath))[k]
                   p    == Append(tPath, name)
                   sub  == Listing(Resolve(p))
               IN  ~Pruned(p) =>
                   /\ (IsFile(p) /\ WantedExt(name, tExts)) => TreeOutHas("file", p)
                   /\ (IsDir(p) /\ ~hideEmptyDirs) => TreeOutHas("dir", p)
                   /\ (IsDir(p) /\ hideEmptyDirs /\ ~Readable(p))
                         => ~TreeOutHas("dir", p)
                   /\ ( /\ IsDir(p) /\ hideEmptyDirs /\ Readable(p)
                        /\ dirProbeLimit > Len(sub)
                        /\ \E j \in 1..Len(sub) :
                              IsFile(Append(p, sub[j])) /\ WantedExt(sub[j], tExts) )
                         => TreeOutHas("dir", p)

(* The probe examines nothing inside a directory it may not list. *)
ProbeSkipsDenied ==
    \A k \in 1..Len(pSeen) : Readable(SubSeq(pSeen[k], 1, Len(pSeen[k]) - 1))

(* C13: a permission error on listing one directory during iter_files,     *)
(* iter_tree or the probe is not propagated and counts as that directory   *)
(* having no children: the operation still returns, and every matching     *)
(* file in the directories that can be read is still reported.             *)
C13_DeniedDirIsEmpty ==
    /\ <>TraversalOver
    /\ [](NothingRaised /\ WalkReportsReadable /\ TreeReportsReadable
          /\ ProbeSkipsDenied)

(* iter_tree of / with /h denied and empty directories hidden has returned *)
(* the directory /t alone.                                                 *)
C13_Witness ==
    /\ tPc = "done"
    /\ tPath = <<>>
    /\ denied = { <<"h">> }
    /\ hideEmptyDirs
    /\ Len(tOut) = 1
    /\ TreeOutHas("dir", <<"t">>)

-----------------------------------------------------------------------------
(* The line-count limit *)

(* C16, as claimed: a read with line-count limit L >= 1 returns at most L  *)
(* records, for every file, wherever its blank lines fall.                 *)
C16_AtMostLimitRecords ==
    (rOp \in LimitedReaders /\ rLimit >= 1) => Len(rOut.recs) <= rLimit

-----------------------------------------------------------------------------
(* Schema recognition by field names (viewer.infer_schema_name) *)

(* k.lower() *)
Lower(k) ==
    CASE k = "Messages" -> "messages"
      [] k = "INPUT"    -> "input"
      [] k = "Output"   -> "output"
      [] k = "System"   -> "system"
      [] OTHER          -> k

(* The checks in the order of the code; the first that holds names the     *)
(* schema.                                                                 *)
infer_schema_name(schema_keys) ==
    LET keys == {Lower(k) : k \in schema_keys} IN
    IF {"prompt", "completion"} \subseteq keys THEN "OpenAI-SFT Schema"
    ELSE IF {"prompt", "response"} \subseteq keys THEN "Alpaca-Style Schema"
    ELSE IF {"chosen", "rejected"} \subseteq keys THEN "Preference (DPO) Schema"
    ELSE IF {"system", "messages"} \subseteq keys
         THEN "ChatML / Conversation Schema"
    ELSE IF {"input", "output"} \subseteq keys THEN "Generic IO Schema"
    ELSE "Unknown / Custom Schema"

SchemaKeys ==
    { "prompt", "completion", "response", "chosen", "rejected", "system",
      "messages", "input", "output", "Messages", "INPUT", "Output", "System",
      "id" }

MaxKeys == 5

InitSchema ==
    /\ sKeys \in {K \in SUBSET SchemaKeys : Cardinality(K) <= MaxKeys}
    /\ sName = "none"
    /\ ReaderIdle /\ StoreIdle /\ WalkIdle /\ ListIdle /\ OpenIdle
    /\ PermIdle /\ ProbeIdle /\ TreeIdle /\ ViewIdle

InferSchemaName ==
    /\ sName = "none"
    /\ sName' = infer_schema_name(sKeys)
    /\ UNCHANGED sKeys
    /\ UNCHANGED notSchema

SchemaNext == InferSchemaName

SpecSchema == InitSchema /\ [][SchemaNext]_vars

HasKey(k) == \E x \in sKeys : Lower(x) = k

(* C17, as claimed: for every key set that holds messages together with    *)
(* input and output, the recognizer names the chat/conversation schema and *)
(* not the input/output schema.                                            *)
C17_ChatBeforeInputOutput ==
    (sName # "none" /\ HasKey("messages") /\ HasKey("input") /\ HasKey("output"))
       => sName = "ChatML / Conversation Schema"

-----------------------------------------------------------------------------
(* The frame of a mutation *)

(* The records of the file a request found, and of the file as it is now,  *)
(* numbered from 0 as the handlers number them.                            *)
RecordsBefore(p) == read_jsonl(before[p].main.exists, before[p].main.text)

RecordsNow == read_jsonl(FileState("main").exists, FileState("main").text)

At(rs, j) == rs[j + 1]

UpdateFrame(old, new, idx, obj) ==
    /\ Len(new) = Len(old)
    /\ At(new, idx) = obj
    /\ \A j \in 0..(Len(old) - 1) : j # idx => At(new, j) = At(old, j)

DeleteFrame(old, new, idx) ==
    /\ Len(new) = Len(old) - 1
    /\ \A j \in 0..(Len(old) - 1) :
          /\ j < idx => At(new, j) = At(old, j)
          /\ j > idx => At(new, j - 1) = At(old, j)

AddFrame(old, new, obj, answered) ==
    /\ Len(new) = Len(old) + 1
    /\ \A j \in 0..(Len(old) - 1) : At(new, j) = At(old, j)
    /\ At(new, Len(old)) = obj
    /\ answered = Len(old)

(* C18: when a mutation has succeeded, the record list of the file differs *)
(* from the list the request found only at the targeted position: update   *)
(* keeps the length and every other record; delete shortens the list by    *)
(* one, keeps the records before idx and moves each later one down by one; *)
(* add keeps every record, puts the new one at the old length and answers  *)
(* that position as idx.                                                   *)
C18_OnlyTargetChanges ==
    \A p \in Procs :
       pc[p] = "done" =>
          LET old == RecordsBefore(p)
              new == RecordsNow
              obj == JsonLoads(req[p].payload).val
          IN  CASE req[p].kind = "update" ->
                      UpdateFrame(old, new, req[p].idx, obj)
                [] req[p].kind = "delete" ->
                      DeleteFrame(old, new, req[p].idx)
                [] req[p].kind = "add" ->
                      AddFrame(old, new, obj, AddResponseIdx(newrows[p]))

(* A delete of the first of three records has completed: two records have  *)
(* moved down.                                                             *)
C18_Witness ==
    /\ pc[1] = "done"
    /\ req[1].kind = "delete"
    /\ req[1].idx = 0
    /\ Len(RecordsBefore(1)) = 3
    /\ Len(RecordsNow) = 2

-----------------------------------------------------------------------------
(* A malformed line across a mutation *)

(* The positions (from 0, among the records) of the lines of the file the  *)
(* request found that are not JSON, the targeted position left out.        *)
MalformedElsewhere(p) ==
    LET old == NonBlankLines(before[p].main.text) IN
    { k \in 0..(Len(old) - 1) :
         /\ ~JsonLoads(Trimmed(At(old, k))).ok
         /\ (req[p].kind = "add" \/ k # req[p].idx) }

(* Where the record at position k stands after the request. *)
PositionAfter(p, k) ==
    IF req[p].kind = "delete" /\ k > req[p].idx THEN k - 1 ELSE k

IsLineOf(text, l) == \E i \in 1..Len(FileLines(text)) : FileLines(text)[i] = l

(* C20: when an update, add or delete has succeeded on a file that held a  *)
(* malformed line at a position other than the targeted one, every line of *)
(* the rewritten file is a JSON document, the malformed line stands at the *)
(* same relative position as its placeholder object (__error__ with the    *)
(* line number it had, __raw__ with its trimmed text), its own text is no  *)
(* line of the file any more, and the .bak sibling holds the previous      *)
(* content.                                                                *)
C20_MalformedBecomesPlaceholder ==
    \A p \in Procs :
       (pc[p] = "done" /\ MalformedElsewhere(p) # {}) =>
          LET old  == NonBlankLines(before[p].main.text)
              text == FileState("main").text
              new  == FileLines(text)
          IN  /\ \A i \in 1..Len(new) : JsonLoads(new[i]).ok
              /\ \A k \in MalformedElsewhere(p) :
                    LET v == JsonLoads(At(new, PositionAfter(p, k))).val IN
                    /\ v.tag = "__raw__"
                    /\ v.raw = Trimmed(At(old, k))
                    /\ v = At(RecordsBefore(p), k)
                    /\ ~IsLineOf(text, At(old, k))
                    /\ ~IsLineOf(text, Trimmed(At(old, k)))
              /\ FileState("bak") = before[p].main

(* The first record of a file has been deleted and the malformed third     *)
(* line, padded with spaces, has moved up to the first position as its     *)
(* placeholder.                                                            *)
C20_Witness ==
    /\ pc[1] = "done"
    /\ req[1].kind = "delete"
    /\ req[1].idx = 0
    /\ 1 \in MalformedElsewhere(1)
    /\ At(NonBlankLines(before[1].main.text), 1) # Trimmed(At(NonBlankLines(before[1].main.text), 1))
    /\ JsonLoads(FileLines(FileState("main").text)[1]).val.tag = "__raw__"

-----------------------------------------------------------------------------
(* The file page (jsonl_ui.view_file) and the record it names *)

(* str.lower() of a character and of a text. *)
LowerChar(c) == IF c = "X" THEN "x" ELSE c

LowerText(s) == [k \in 1..Len(s) |-> LowerChar(s[k])]

(* q in s *)
Contains(s, q) ==
    \E i \in 0..(Len(s) - Len(q)) : SubSeq(s, i + 1, i + Len(q)) = q

(* _match(obj) with regex = False *)
Matches(q, obj) == Contains(LowerText(JsonDumps(obj)), LowerText(q))

PyMax(a, b) == IF a >= b THEN a ELSE b

(* rows[start:end] for 0 <= start <= end *)
Slice(rs, start, end) ==
    SubSeq(rs, start + 1, IF end <= Len(rs) THEN end ELSE Len(rs))

(* "__error__" in r raises TypeError for a record that is a number. *)
MembershipRaises(r) == r.tag = "num"

(* view_file from rows = read_jsonl(path) on.  Every record is carried     *)
(* with pos, its position in the file (a note of the model, not a value of *)
(* the program); idx is the number enumerate(view, start=start) gives.     *)
view_file(text, page, size, q) ==
    LET recs     == read_jsonl(TRUE, text)
        numbered == [k \in 1..Len(recs) |-> [pos |-> k - 1, rec |-> recs[k]]]
        kept     == IF q # <<>>
                    THEN SelectSeq(numbered, LAMBDA e : Matches(q, e.rec))
                    ELSE numbered
        start    == (PyMax(1, page) - 1) * PyMax(1, size)
        view     == Slice(kept, start, start + PyMax(1, size))
    IN  IF \E k \in 1..Len(view) : MembershipRaises(view[k].rec)
        THEN [pc |-> "raised", total |-> 0, previews |-> <<>>]
        ELSE [pc |-> "rendered", total |-> Len(kept),
              previews |-> [k \in 1..Len(view) |->
                              [idx |-> start + k - 1,
                               pos |-> view[k].pos,
                               rec |-> view[k].rec]]]

(* api_get_record(name, idx) on the record list of the file *)
api_get_record(rs, idx) ==
    IF idx < 0 \/ idx >= Len(rs)
    THEN [status |-> 404, rec |-> NoValue]
    ELSE [status |-> 200, rec |-> rs[idx + 1]]

MaxPage == 2
MaxSize == 2

ViewQueries == { <<>>, <<"1", "1">>, <<"X">>, <<"{">> }

ViewTexts ==
    ShortTexts \cup
    { <<"x", LF, "x", LF, "x", "x", LF>>,
      <<"{", "1", QT, "x", QT, "}", LF, "x", LF>> }

InitView ==
    /\ vText \in ViewTexts
    /\ vPage \in 0..MaxPage
    /\ vSize \in 0..MaxSize
    /\ vQ \in ViewQueries
    /\ vPc = "call"
    /\ vTotal = 0
    /\ vOut = <<>>
    /\ ReaderIdle /\ StoreIdle /\ WalkIdle /\ ListIdle /\ OpenIdle
    /\ PermIdle /\ ProbeIdle /\ TreeIdle /\ SchemaIdle

ViewFile ==
    /\ vPc = "call"
    /\ LET r == view_file(vText, vPage, vSize, vQ) IN
       /\ vPc' = r.pc
       /\ vTotal' = r.total
       /\ vOut' = r.previews
    /\ UNCHANGED <<vText, vPage, vSize, vQ>>
    /\ UNCHANGED notView

ViewNext == ViewFile

SpecView == InitView /\ [][ViewNext]_vars

(* C19, as claimed: the idx of every preview rendered, whatever the page,  *)
(* the page size and the filter q, is the position of the previewed record *)
(* in the file, and api_get_record with that idx on the unchanged file     *)
(* returns the previewed record.                                           *)
C19_PreviewIdxIsFilePosition ==
    vPc = "rendered" =>
       \A k \in 1..Len(vOut) :
          /\ vOut[k].idx = vOut[k].pos
          /\ api_get_record(read_jsonl(TRUE, vText), vOut[k].idx)
                = [status |-> 200, rec |-> vOut[k].rec]

(* The same without a filter: the idx of a preview is the position of the  *)
(* record in the file on every page of every size.                         *)
C19_UnfilteredIdxIsFilePosition ==
    (vPc = "rendered" /\ vQ = <<>>) =>
       \A k \in 1..Len(vOut) :
          /\ vOut[k].idx = vOut[k].pos
          /\ api_get_record(read_jsonl(TRUE, vText), vOut[k].idx)
                = [status |-> 200, rec |-> vOut[k].rec]

=============================================================================
